---------------------------- MODULE Spec2Model ----------------------------
(***************************************************************************)
(* A model of the FATURA invoice normalisation code:                       *)
(*   src/src/data_cleaning.py  clean_spaces, parse_amount_and_currency,    *)
(*                             normalize_date, split_address_block,        *)
(*                             clean_template_df                           *)
(*   src/src/json_to_csv.py    extract_text_fields, template_folder_to_csv,*)
(*                             json_templates_to_csv                       *)
(*                                                                         *)
(* A Python str is a sequence of one-character strings, so that scanning,  *)
(* splitting and formatting are computed character by character.  A few    *)
(* characters outside ASCII are written as named tokens ("EURO", ...).     *)
(* The missing value (None / NaN) is the one-element sequence NaN.         *)
(***************************************************************************)
EXTENDS Integers, Sequences, FiniteSets, TLC

VARIABLES
    aPc,     \* amount parser: "idle", "start", "parsed" or "reparsed"
    aText,   \* the text handed to parse_amount_and_currency
    aRet,    \* what it returned
    aText2,  \* the returned pair written out again
    aRet2,   \* what parse_amount_and_currency returned for aText2
    dPc,     \* date normaliser: "idle", "start" or "done"
    dText,   \* the text handed to normalize_date
    dRet,    \* what it returned (NaN for None)
    libcPadsYear, \* whether the platform's strftime pads %Y to four digits
    bPc,     \* address splitter: "idle", "start" or "done"
    bText,   \* the block handed to split_address_block
    bRet,    \* the record it returned
    cPc,     \* cleaning pipeline: "idle", "start" or "done"
    df,      \* the frame handed to clean_template_df: [cols, data]
    out,     \* what it returned: [err, cols, data]; err is reindex raising
    fPc,     \* json_templates_to_csv: "idle", "start", "folder", "docs",
             \* "done", "raisedValueError" or "raisedFileNotFound"
    folders, \* the template folders in sorted order, each its documents in
             \* sorted path order; a document is the JSON value loaded from it
    csv,     \* the output folder: for each template folder, the rows of its
             \* CSV, or NoFile
    fi,      \* the index of the folder template_folder_to_csv is working on
    di,      \* the number of its documents read so far
    rows     \* the rows collected for it so far

amountVars == <<aPc, aText, aRet, aText2, aRet2>>
dateVars == <<dPc, dText, dRet, libcPadsYear>>
addrVars == <<bPc, bText, bRet>>
cleanVars == <<cPc, df, out>>
flatVars == <<fPc, folders, csv, fi, di, rows>>
vars == <<amountVars, dateVars, addrVars, cleanVars, flatVars>>
notAmount == <<dateVars, addrVars, cleanVars, flatVars>>
notDate == <<amountVars, addrVars, cleanVars, flatVars>>
notAddr == <<amountVars, dateVars, cleanVars, flatVars>>
notClean == <<amountVars, dateVars, addrVars, flatVars>>
notFlat == <<amountVars, dateVars, addrVars, cleanVars>>

(***************************************************************************)
(* Characters and strings                                                  *)
(***************************************************************************)
NaN == <<"NaN">>

LowerLetters == <<"a","b","c","d","e","f","g","h","i","j","k","l","m",
                  "n","o","p","q","r","s","t","u","v","w","x","y","z">>
UpperLetters == <<"A","B","C","D","E","F","G","H","I","J","K","L","M",
                  "N","O","P","Q","R","S","T","U","V","W","X","Y","Z">>
Digits == {"0","1","2","3","4","5","6","7","8","9"}

IsDigit(c) == c \in Digits
IsSpace(c) == c \in {" ", "\n", "\t"}
IsWordChar(c) ==
    \/ IsDigit(c)
    \/ c = "_"
    \/ \E i \in 1..26 : c = LowerLetters[i] \/ c = UpperLetters[i]

DigitVal(c) ==
    CASE c = "0" -> 0 [] c = "1" -> 1 [] c = "2" -> 2 [] c = "3" -> 3
      [] c = "4" -> 4 [] c = "5" -> 5 [] c = "6" -> 6 [] c = "7" -> 7
      [] c = "8" -> 8 [] c = "9" -> 9

DigitChar(n) ==
    CASE n = 0 -> "0" [] n = 1 -> "1" [] n = 2 -> "2" [] n = 3 -> "3"
      [] n = 4 -> "4" [] n = 5 -> "5" [] n = 6 -> "6" [] n = 7 -> "7"
      [] n = 8 -> "8" [] n = 9 -> "9"

\* str.upper() and str.lower(), one character at a time
UpperChar(c) ==
    IF \E i \in 1..26 : c = LowerLetters[i]
    THEN UpperLetters[CHOOSE i \in 1..26 : c = LowerLetters[i]]
    ELSE c
LowerChar(c) ==
    IF \E i \in 1..26 : c = UpperLetters[i]
    THEN LowerLetters[CHOOSE i \in 1..26 : c = UpperLetters[i]]
    ELSE c
Upper(s) == [i \in 1..Len(s) |-> UpperChar(s[i])]
Lower(s) == [i \in 1..Len(s) |-> LowerChar(s[i])]

\* str(n) for a natural number
RECURSIVE NatToDigits(_)
NatToDigits(n) ==
    IF n < 10 THEN <<DigitChar(n)>>
    ELSE NatToDigits(n \div 10) \o <<DigitChar(n % 10)>>

\* s[i:j] of Python with 1-based, inclusive bounds
Slice(s, i, j) == IF i > j THEN <<>> ELSE SubSeq(s, i, j)

\* pat in s
Contains(s, pat) ==
    \E i \in 1..(Len(s) - Len(pat) + 1) : Slice(s, i, i + Len(pat) - 1) = pat

\* s.startswith(pat)
StartsWith(s, pat) == Len(s) >= Len(pat) /\ Slice(s, 1, Len(pat)) = pat

\* s.strip()
RECURSIVE LStrip(_)
LStrip(s) == IF s # <<>> /\ IsSpace(Head(s)) THEN LStrip(Tail(s)) ELSE s
RECURSIVE RStrip(_)
RStrip(s) ==
    IF s # <<>> /\ IsSpace(s[Len(s)]) THEN RStrip(Slice(s, 1, Len(s) - 1)) ELSE s
Strip(s) == RStrip(LStrip(s))

\* re.sub(r"\s+", " ", s)
RECURSIVE CollapseSpaces(_)
CollapseSpaces(s) ==
    IF s = <<>> THEN <<>>
    ELSE IF IsSpace(Head(s)) THEN <<" ">> \o CollapseSpaces(LStrip(s))
    ELSE <<Head(s)>> \o CollapseSpaces(Tail(s))

\* clean_spaces(x): "" for None / NaN, else whitespace collapsed and trimmed
clean_spaces(x) == IF x = NaN THEN <<>> ELSE Strip(CollapseSpaces(x))

(***************************************************************************)
(* parse_amount_and_currency                                               *)
(***************************************************************************)
\* a float: its sign bit, integer part, and fraction digits without
\* trailing zeros; some = FALSE is None
NoAmount == [some |-> FALSE, neg |-> FALSE, int |-> 0, frac |-> <<>>]

CURRENCY_MAP == [c \in {"EURO", "$", "RUPEE", "POUND"} |->
    CASE c = "EURO" -> "EUR" [] c = "$" -> "USD"
      [] c = "RUPEE" -> "INR" [] c = "POUND" -> "GBP"]

CurrencyCodes ==
    { <<"U","S","D">>, <<"E","U","R">>, <<"I","N","R">>, <<"G","B","P">>,
      <<"A","E","D">>, <<"S","G","D">>, <<"A","U","D">>, <<"C","A","D">>,
      <<"J","P","Y">>, <<"C","N","Y">> }

CodeName(cs) ==
    CASE cs = <<"U","S","D">> -> "USD" [] cs = <<"E","U","R">> -> "EUR"
      [] cs = <<"I","N","R">> -> "INR" [] cs = <<"G","B","P">> -> "GBP"
      [] cs = <<"A","E","D">> -> "AED" [] cs = <<"S","G","D">> -> "SGD"
      [] cs = <<"A","U","D">> -> "AUD" [] cs = <<"C","A","D">> -> "CAD"
      [] cs = <<"J","P","Y">> -> "JPY" [] cs = <<"C","N","Y">> -> "CNY"

\* re.search(r"\b(USD|...|CNY)\b", t, re.I) matches at position i
CodeAt(t, i) ==
    /\ i + 2 <= Len(t)
    /\ Upper(Slice(t, i, i + 2)) \in CurrencyCodes
    /\ (i = 1 \/ ~IsWordChar(t[i - 1]))
    /\ (i + 3 > Len(t) \/ ~IsWordChar(t[i + 3]))

\* the currency detection of parse_amount_and_currency: "None" when absent
DetectCurrency(t) ==
    IF \E i \in 1..Len(t) : CodeAt(t, i)
    THEN LET i == CHOOSE k \in 1..Len(t) :
                      CodeAt(t, k) /\ \A m \in 1..(k - 1) : ~CodeAt(t, m)
         IN  CodeName(Upper(Slice(t, i, i + 2)))
    ELSE IF \E i \in 1..Len(t) : t[i] \in DOMAIN CURRENCY_MAP
    THEN LET i == CHOOSE k \in 1..Len(t) :
                      /\ t[k] \in DOMAIN CURRENCY_MAP
                      /\ \A m \in 1..(k - 1) : t[m] \notin DOMAIN CURRENCY_MAP
         IN  CURRENCY_MAP[t[i]]
    ELSE "None"

\* the number of digits of t from position j on
RECURSIVE DigitRun(_, _)
DigitRun(t, j) ==
    IF j <= Len(t) /\ IsDigit(t[j]) THEN 1 + DigitRun(t, j + 1) ELSE 0

Min(a, b) == IF a < b THEN a ELSE b

\* (?:,\d{3})* from position j: the position after the last group taken
RECURSIVE GroupsEnd(_, _)
GroupsEnd(t, j) ==
    IF j + 3 <= Len(t) /\ t[j] = "," /\ DigitRun(t, j + 1) >= 3
    THEN GroupsEnd(t, j + 4)
    ELSE j

\* (?:\.\d+)? from position j
FracEnd(t, j) ==
    IF j + 1 <= Len(t) /\ t[j] = "." /\ DigitRun(t, j + 1) >= 1
    THEN j + 1 + DigitRun(t, j + 1)
    ELSE j

\* [-+]? from position i
SignEnd(t, i) ==
    IF i <= Len(t) /\ t[i] \in {"-", "+"} /\ DigitRun(t, i + 1) >= 1
    THEN i + 1 ELSE i

\* first alternative [-+]?\d{1,3}(?:,\d{3})*(?:\.\d+)? tried at position i:
\* the position after the match, 0 when it does not match
Alt1End(t, i) ==
    LET j == SignEnd(t, i)
    IN  IF DigitRun(t, j) = 0 THEN 0
        ELSE FracEnd(t, GroupsEnd(t, j + Min(DigitRun(t, j), 3)))

\* second alternative [-+]?\d+(?:\.\d+)? tried at position i
Alt2End(t, i) ==
    LET j == SignEnd(t, i)
    IN  IF DigitRun(t, j) = 0 THEN 0
        ELSE FracEnd(t, j + DigitRun(t, j))

\* the alternation: the first alternative that matches wins
MatchEnd(t, i) == IF Alt1End(t, i) # 0 THEN Alt1End(t, i) ELSE Alt2End(t, i)

\* re.findall(pattern, t) scanning from position i: the matched substrings
RECURSIVE FindAllFrom(_, _)
FindAllFrom(t, i) ==
    IF i > Len(t) THEN <<>>
    ELSE IF MatchEnd(t, i) = 0 THEN FindAllFrom(t, i + 1)
    ELSE <<Slice(t, i, MatchEnd(t, i) - 1)>> \o FindAllFrom(t, MatchEnd(t, i))
FindAll(t) == FindAllFrom(t, 1)

\* tok.replace(",", "")
RECURSIVE RemoveCommas(_)
RemoveCommas(s) ==
    IF s = <<>> THEN <<>>
    ELSE IF Head(s) = "," THEN RemoveCommas(Tail(s))
    ELSE <<Head(s)>> \o RemoveCommas(Tail(s))

\* int(digits)
RECURSIVE DigitsToNat(_)
DigitsToNat(s) ==
    IF s = <<>> THEN 0
    ELSE 10 * DigitsToNat(Slice(s, 1, Len(s) - 1)) + DigitVal(s[Len(s)])

RECURSIVE StripTrailingZeros(_)
StripTrailingZeros(s) ==
    IF s # <<>> /\ s[Len(s)] = "0"
    THEN StripTrailingZeros(Slice(s, 1, Len(s) - 1)) ELSE s

\* float(s) for s of the form [-+]?digits(.digits)?
ToFloat(s) ==
    LET signed == s[1] \in {"-", "+"}
        body   == IF signed THEN Tail(s) ELSE s
        n      == DigitRun(body, 1)
    IN  [some |-> TRUE,
         neg  |-> s[1] = "-",
         int  |-> DigitsToNat(Slice(body, 1, n)),
         frac |-> StripTrailingZeros(Slice(body, n + 2, Len(body)))]

\* str(x) for a float x in the range Python prints without an exponent
FloatRepr(a) ==
    (IF a.neg THEN <<"-">> ELSE <<>>) \o NatToDigits(a.int) \o <<".">>
        \o (IF a.frac = <<>> THEN <<"0">> ELSE a.frac)

CodeChars(name) == CHOOSE cs \in CurrencyCodes : CodeName(cs) = name

IsZero(a) == a.int = 0 /\ a.frac = <<>>

\* -abs(amount)
NegAbs(a) == [a EXCEPT !.neg = TRUE]

\* the discount test with the text left in its own letter case
DiscountMarkedCaseSensitive(t) ==
    \/ Contains(t, <<"D","I","S","C","O","U","N","T">>)
    \/ Contains(t, <<"(", "-", ")">>)

\* the discount test of line 64
DiscountMarked(t) ==
    \/ Contains(Upper(t), <<"D","I","S","C","O","U","N","T">>)
    \/ Contains(t, <<"(", "-", ")">>)
    \/ \E i \in 1..Len(t), j \in 1..Len(t), k \in 1..Len(t) :
          /\ i < j /\ j < k
          /\ t[i] = "(" /\ t[j] = "-" /\ t[k] = ")"
          /\ \A m \in (i + 1)..(j - 1) : IsSpace(t[m])
          /\ \A m \in (j + 1)..(k - 1) : IsSpace(t[m])

parse_amount_and_currency(text) ==
    IF text = NaN THEN [amount |-> NoAmount, currency |-> "None"]
    ELSE LET t == clean_spaces(text)
             currency == DetectCurrency(t)
             nums == FindAll(t)
         IN  IF t = <<>> THEN [amount |-> NoAmount, currency |-> "None"]
             ELSE IF nums = <<>> THEN [amount |-> NoAmount, currency |-> currency]
             ELSE LET amount == ToFloat(RemoveCommas(nums[Len(nums)]))
                  IN  [amount   |-> IF DiscountMarked(t) THEN NegAbs(amount)
                                    ELSE amount,
                       currency |-> currency]

(***************************************************************************)
(* normalize_date                                                          *)
(***************************************************************************)
\* s.split(sep): the fields between the occurrences of the character sep
RECURSIVE SplitOn(_, _)
SplitOn(s, sep) ==
    IF \E i \in 1..Len(s) : s[i] = sep
    THEN LET i == CHOOSE k \in 1..Len(s) :
                      s[k] = sep /\ \A m \in 1..(k - 1) : s[m] # sep
         IN  <<Slice(s, 1, i - 1)>> \o SplitOn(Slice(s, i + 1, Len(s)), sep)
    ELSE <<s>>

\* s.split(":", 1)[1]
AfterFirst(s, sep) ==
    LET i == CHOOSE k \in 1..Len(s) : s[k] = sep /\ \A m \in 1..(k - 1) : s[m] # sep
    IN  Slice(s, i + 1, Len(s))

MonthAbbrevs ==
    << <<"j","a","n">>, <<"f","e","b">>, <<"m","a","r">>, <<"a","p","r">>,
       <<"m","a","y">>, <<"j","u","n">>, <<"j","u","l">>, <<"a","u","g">>,
       <<"s","e","p">>, <<"o","c","t">>, <<"n","o","v">>, <<"d","e","c">> >>
MonthNames ==
    << <<"j","a","n","u","a","r","y">>, <<"f","e","b","r","u","a","r","y">>,
       <<"m","a","r","c","h">>, <<"a","p","r","i","l">>, <<"m","a","y">>,
       <<"j","u","n","e">>, <<"j","u","l","y">>, <<"a","u","g","u","s","t">>,
       <<"s","e","p","t","e","m","b","e","r">>, <<"o","c","t","o","b","e","r">>,
       <<"n","o","v","e","m","b","e","r">>, <<"d","e","c","e","m","b","e","r">> >>

AllDigits(s) == \A i \in 1..Len(s) : IsDigit(s[i])

\* One strptime directive against a whole field: the value, or 0 when the
\* directive's pattern does not match the field.
\*   %d  3[0-1]|[1-2]\d|0[1-9]|[1-9]| [1-9]      %m  1[0-2]|0[1-9]|[1-9]
\*   %Y  \d\d\d\d (0 is then no year either)      %b, %B  names, any case
Directive(dir, fld) ==
    CASE dir = "%d" ->
           IF Len(fld) = 2 /\ fld[1] = " " /\ IsDigit(fld[2]) THEN DigitVal(fld[2])
           ELSE IF Len(fld) \in {1, 2} /\ AllDigits(fld) /\ DigitsToNat(fld) \in 1..31
           THEN DigitsToNat(fld) ELSE 0
      [] dir = "%m" ->
           IF Len(fld) \in {1, 2} /\ AllDigits(fld) /\ DigitsToNat(fld) \in 1..12
           THEN DigitsToNat(fld) ELSE 0
      [] dir = "%Y" ->
           IF Len(fld) = 4 /\ AllDigits(fld) THEN DigitsToNat(fld) ELSE 0
      [] dir = "%b" ->
           IF \E k \in 1..12 : MonthAbbrevs[k] = Lower(fld)
           THEN CHOOSE k \in 1..12 : MonthAbbrevs[k] = Lower(fld) ELSE 0
      [] dir = "%B" ->
           IF \E k \in 1..12 : MonthNames[k] = Lower(fld)
           THEN CHOOSE k \in 1..12 : MonthNames[k] = Lower(fld) ELSE 0

IsLeap(y) == y % 4 = 0 /\ (y % 100 # 0 \/ y % 400 = 0)
DaysInMonth(y, m) ==
    IF m = 2 THEN (IF IsLeap(y) THEN 29 ELSE 28)
    ELSE IF m \in {4, 6, 9, 11} THEN 30 ELSE 31

NoDate == [ok |-> FALSE, y |-> 0, m |-> 0, d |-> 0]

\* datetime.strptime(t, f) for a format f = [sep, dirs] that is three
\* directives joined by one separator character: ok = FALSE is ValueError
strptime(t, f) ==
    LET flds == SplitOn(t, f.sep)
    IN  IF Len(flds) # 3 THEN NoDate
        ELSE LET v == [k \in 1..3 |-> Directive(f.dirs[k], flds[k])]
                 pos(dir) == CHOOSE k \in 1..3 :
                                 f.dirs[k] = dir \/ (dir = "%m" /\ f.dirs[k] \in {"%b", "%B"})
                 y == v[pos("%Y")]
                 m == v[pos("%m")]
                 d == v[pos("%d")]
             IN  IF \E k \in 1..3 : v[k] = 0 THEN NoDate
                 ELSE IF d > DaysInMonth(y, m) THEN NoDate
                 ELSE [ok |-> TRUE, y |-> y, m |-> m, d |-> d]

\* zero-padded decimal of width w
RECURSIVE ZeroPad(_, _)
ZeroPad(s, w) == IF Len(s) >= w THEN s ELSE ZeroPad(<<"0">> \o s, w)

\* dt.strftime("%Y-%m-%d"); the C library decides whether %Y is padded
strftime(dt, pads) ==
    (IF pads THEN ZeroPad(NatToDigits(dt.y), 4) ELSE NatToDigits(dt.y))
        \o <<"-">> \o ZeroPad(NatToDigits(dt.m), 2)
        \o <<"-">> \o ZeroPad(NatToDigits(dt.d), 2)

\* the format list of normalize_date, in its order
formats ==
    << [sep |-> "-", dirs |-> <<"%d", "%b", "%Y">>],
       [sep |-> "-", dirs |-> <<"%d", "%B", "%Y">>],
       [sep |-> "/", dirs |-> <<"%d", "%m", "%Y">>],
       [sep |-> "-", dirs |-> <<"%d", "%m", "%Y">>],
       [sep |-> "-", dirs |-> <<"%Y", "%m", "%d">>],
       [sep |-> "/", dirs |-> <<"%m", "%d", "%Y">>] >>

\* the loop over the formats from format k on: the first parse that succeeds
RECURSIVE TryFormats(_, _, _)
TryFormats(t, k, pads) ==
    IF k > Len(formats) THEN NaN
    ELSE IF strptime(t, formats[k]).ok THEN strftime(strptime(t, formats[k]), pads)
    ELSE TryFormats(t, k + 1, pads)

\* the text the formats are tried on
DateValue(t) == IF Contains(t, <<":">>) THEN Strip(AfterFirst(t, ":")) ELSE t

normalize_date(text, pads) ==
    IF text = NaN THEN NaN
    ELSE IF clean_spaces(text) = <<>> THEN NaN
    ELSE TryFormats(DateValue(clean_spaces(text)), 1, pads)

(***************************************************************************)
(* split_address_block                                                     *)
(***************************************************************************)
\* the result dictionary as it is initialised: every field None
EmptyAddress ==
    [name |-> NaN, addr_line1 |-> NaN, addr_line2 |-> NaN,
     city_state_postal_country |-> NaN, tel |-> NaN, email |-> NaN,
     site |-> NaN, raw |-> NaN]

\* [l.strip() for l in str(text).splitlines() if l.strip()]
RECURSIVE StripNonEmpty(_)
StripNonEmpty(ls) ==
    IF ls = <<>> THEN <<>>
    ELSE IF Strip(Head(ls)) = <<>> THEN StripNonEmpty(Tail(ls))
    ELSE <<Strip(Head(ls))>> \o StripNonEmpty(Tail(ls))
SplitLines(text) == StripNonEmpty(SplitOn(text, "\n"))

\* " | ".join(lines)
RECURSIVE JoinLines(_, _)
JoinLines(ls, sep) ==
    IF ls = <<>> THEN <<>>
    ELSE IF Len(ls) = 1 THEN ls[1]
    ELSE ls[1] \o sep \o JoinLines(Tail(ls), sep)

\* line.split(":", 1)[-1].strip() if ":" in line else line
ContactValue(line) ==
    IF Contains(line, <<":">>) THEN Strip(AfterFirst(line, ":")) ELSE line

T_tel == <<"t","e","l">>
T_email == <<"e","m","a","i","l">>
T_site == <<"s","i","t","e">>
T_http == <<"h","t","t","p">>
T_www == <<"w","w","w">>

\* the test of line 124: the line goes to site
IsSiteLine(low) ==
    StartsWith(low, T_site) \/ Contains(low, T_http) \/ StartsWith(low, T_www)

\* one pass of the loop of lines 118-125
ClassifyLine(result, line) ==
    LET low == Lower(line)
    IN  IF StartsWith(low, T_tel) THEN [result EXCEPT !.tel = ContactValue(line)]
        ELSE IF StartsWith(low, T_email)
        THEN [result EXCEPT !.email = ContactValue(line)]
        ELSE IF IsSiteLine(low) THEN [result EXCEPT !.site = ContactValue(line)]
        ELSE result

RECURSIVE ClassifyLines(_, _)
ClassifyLines(result, ls) ==
    IF ls = <<>> THEN result
    ELSE ClassifyLines(ClassifyLine(result, Head(ls)), Tail(ls))

\* the filter of line 127: l.lower().startswith(("tel", "email", "site"))
IsFilteredLine(line) ==
    \/ StartsWith(Lower(line), T_tel)
    \/ StartsWith(Lower(line), T_email)
    \/ StartsWith(Lower(line), T_site)

RECURSIVE AddressLines(_)
AddressLines(ls) ==
    IF ls = <<>> THEN <<>>
    ELSE IF IsFilteredLine(Head(ls)) THEN AddressLines(Tail(ls))
    ELSE <<Head(ls)>> \o AddressLines(Tail(ls))

LineOrNone(ls, k) == IF Len(ls) >= k THEN ls[k] ELSE NaN

split_address_block(text) ==
    IF text = NaN THEN EmptyAddress
    ELSE LET lines == SplitLines(text)
             addr  == AddressLines(lines)
             r     == ClassifyLines([EmptyAddress EXCEPT
                                        !.raw = JoinLines(lines, <<" ","|"," ">>)],
                                    lines)
         IN  IF lines = <<>> THEN EmptyAddress
             ELSE [r EXCEPT !.name = LineOrNone(addr, 1),
                            !.addr_line1 = LineOrNone(addr, 2),
                            !.addr_line2 = LineOrNone(addr, 3),
                            !.city_state_postal_country = LineOrNone(addr, 4)]

(***************************************************************************)
(* clean_template_df                                                       *)
(*                                                                         *)
(* A DataFrame is [cols, data]: the column labels in their order and one   *)
(* sequence of cells per row, aligned with cols.  A cell is a str or NaN;  *)
(* a float cell is held as the text str() gives it.                        *)
(***************************************************************************)
\* every column name of the model in the order Python's sorted() gives
\* (code points: upper case before "_" before lower case)
LexOrder ==
    << "BUYER", "BUYER_addr_line1", "BUYER_addr_line2",
       "BUYER_city_state_postal_country", "BUYER_email", "BUYER_name", "BUYER_raw",
       "BUYER_site", "BUYER_tel", "CURRENCY", "DATE", "DATE_NORM", "DISCOUNT",
       "DISCOUNT_AMOUNT", "DUE_DATE", "DUE_DATE_NORM", "LOGO", "NOTE", "OTHER",
       "SELLER_ADDRESS", "SELLER_addr_line1", "SELLER_addr_line2",
       "SELLER_city_state_postal_country", "SELLER_email", "SELLER_name",
       "SELLER_raw", "SELLER_site", "SELLER_tel", "SUB_TOTAL", "SUB_TOTAL_AMOUNT",
       "TAX", "TAX_AMOUNT", "TOTAL", "TOTAL_AMOUNT", "_source_file" >>

Range(f) == { f[x] : x \in DOMAIN f }

\* a set of names as a sequence, in any order
RECURSIVE SetToSeq(_)
SetToSeq(S) ==
    IF S = {} THEN <<>>
    ELSE LET x == CHOOSE y \in S : TRUE IN <<x>> \o SetToSeq(S \ {x})

Count(cols, c) == Cardinality({ k \in 1..Len(cols) : cols[k] = c })

\* sorted(cols), from the k-th name of LexOrder on
RECURSIVE SortedFrom(_, _)
SortedFrom(cols, k) ==
    IF k > Len(LexOrder) THEN <<>>
    ELSE [i \in 1..Count(cols, LexOrder[k]) |-> LexOrder[k]] \o SortedFrom(cols, k + 1)
sorted(cols) == SortedFrom(cols, 1)

HasCol(d, c) == \E k \in 1..Len(d.cols) : d.cols[k] = c
ColIndex(d, c) ==
    CHOOSE k \in 1..Len(d.cols) : d.cols[k] = c /\ \A m \in 1..(k - 1) : d.cols[m] # c
NRows(d) == Len(d.data)

\* d[c]
Column(d, c) == [r \in 1..NRows(d) |-> d.data[r][ColIndex(d, c)]]

\* d[c] = vals: overwrites the column in place, or appends a new one
SetColumn(d, c, vals) ==
    IF HasCol(d, c)
    THEN [d EXCEPT !.data = [r \in 1..NRows(d) |->
                                [d.data[r] EXCEPT ![ColIndex(d, c)] = vals[r]]]]
    ELSE [cols |-> Append(d.cols, c),
          data |-> [r \in 1..NRows(d) |-> Append(d.data[r], vals[r])]]

\* d[c] = None
SetColumnNone(d, c) == SetColumn(d, c, [r \in 1..NRows(d) |-> NaN])

RemoveAt(s, k) == Slice(s, 1, k - 1) \o Slice(s, k + 1, Len(s))

\* the loop body of lines 149-150
DropIfPresent(d, c) ==
    IF HasCol(d, c)
    THEN [cols |-> RemoveAt(d.cols, ColIndex(d, c)),
          data |-> [r \in 1..NRows(d) |-> RemoveAt(d.data[r], ColIndex(d, c))]]
    ELSE d

\* the amount map reversed
amount_map_reversed ==
    << <<"DISCOUNT", "DISCOUNT_AMOUNT">>, <<"TAX", "TAX_AMOUNT">>,
       <<"SUB_TOTAL", "SUB_TOTAL_AMOUNT">>, <<"TOTAL", "TOTAL_AMOUNT">> >>

\* amount_map, in the order the dictionary is written and iterated
amount_map ==
    << <<"TOTAL", "TOTAL_AMOUNT">>, <<"SUB_TOTAL", "SUB_TOTAL_AMOUNT">>,
       <<"TAX", "TAX_AMOUNT">>, <<"DISCOUNT", "DISCOUNT_AMOUNT">> >>

\* a float or None as a cell
AmountCell(a) == IF a.some THEN FloatRepr(a) ELSE NaN

\* the amount step with the parsed amounts written over the source column
AmountStepInPlace(st, src, tgt) ==
    IF HasCol(st.d, src)
    THEN LET parsed == [r \in 1..NRows(st.d) |->
                           parse_amount_and_currency(Column(st.d, src)[r])]
         IN  [d   |-> SetColumn(st.d, src,
                                [r \in 1..NRows(st.d) |-> AmountCell(parsed[r].amount)]),
              cur |-> Append(st.cur, [r \in 1..NRows(st.d) |-> parsed[r].currency])]
    ELSE [st EXCEPT !.d = SetColumnNone(st.d, tgt)]

\* the amount step without its else branch
AmountStepNoElse(st, src, tgt) ==
    IF HasCol(st.d, src)
    THEN LET parsed == [r \in 1..NRows(st.d) |->
                           parse_amount_and_currency(Column(st.d, src)[r])]
         IN  [d   |-> SetColumn(st.d, tgt,
                                [r \in 1..NRows(st.d) |-> AmountCell(parsed[r].amount)]),
              cur |-> Append(st.cur, [r \in 1..NRows(st.d) |-> parsed[r].currency])]
    ELSE st

\* one pass of the loop of lines 161-167 on st = [d, cur]: the frame and
\* currency_series
AmountStep(st, src, tgt) ==
    IF HasCol(st.d, src)
    THEN LET parsed == [r \in 1..NRows(st.d) |->
                           parse_amount_and_currency(Column(st.d, src)[r])]
         IN  [d   |-> SetColumn(st.d, tgt,
                                [r \in 1..NRows(st.d) |-> AmountCell(parsed[r].amount)]),
              cur |-> Append(st.cur, [r \in 1..NRows(st.d) |-> parsed[r].currency])]
    ELSE [st EXCEPT !.d = SetColumnNone(st.d, tgt)]

RECURSIVE AmountLoop(_, _)
AmountLoop(st, k) ==
    IF k > Len(amount_map) THEN st
    ELSE AmountLoop(AmountStep(st, amount_map[k][1], amount_map[k][2]), k + 1)

\* bfill along a row: every None takes the next value that is not None
RECURSIVE bfill(_)
bfill(vs) ==
    IF vs = <<>> THEN <<>>
    ELSE LET rest == bfill(Tail(vs))
         IN  <<IF Head(vs) # "None" THEN Head(vs)
               ELSE IF rest = <<>> THEN "None" ELSE rest[1]>> \o rest

CurrencyCell(c) == IF c = "None" THEN NaN ELSE CodeChars(c)

\* lines 169-173
CurrencyStep(st) ==
    IF st.cur # <<>>
    THEN SetColumn(st.d, "CURRENCY",
             [r \in 1..NRows(st.d) |->
                 CurrencyCell(bfill([j \in 1..Len(st.cur) |-> st.cur[j][r]])[1])])
    ELSE SetColumnNone(st.d, "CURRENCY")

\* lines 176-179
DateStep(d, src, tgt, pads) ==
    IF HasCol(d, src)
    THEN SetColumn(d, tgt, [r \in 1..NRows(d) |-> normalize_date(Column(d, src)[r], pads)])
    ELSE d

\* the keys of the result dictionary of split_address_block, in their order
AddressKeys ==
    <<"name", "addr_line1", "addr_line2", "city_state_postal_country",
      "tel", "email", "site", "raw">>
BuyerColumns ==
    <<"BUYER_name", "BUYER_addr_line1", "BUYER_addr_line2",
      "BUYER_city_state_postal_country", "BUYER_tel", "BUYER_email",
      "BUYER_site", "BUYER_raw">>
SellerColumns ==
    <<"SELLER_name", "SELLER_addr_line1", "SELLER_addr_line2",
      "SELLER_city_state_postal_country", "SELLER_tel", "SELLER_email",
      "SELLER_site", "SELLER_raw">>

\* lines 182-188: pd.concat([df, json_normalize(...).add_prefix(...)], axis=1)
\* appends the eight columns, whatever labels the frame already has
AddressStep(d, src, prefixed) ==
    IF HasCol(d, src)
    THEN LET recs == [r \in 1..NRows(d) |-> split_address_block(Column(d, src)[r])]
         IN  [cols |-> d.cols \o prefixed,
              data |-> [r \in 1..NRows(d) |->
                           d.data[r] \o [k \in 1..Len(AddressKeys) |->
                                            recs[r][AddressKeys[k]]]]]
    ELSE d

HasDuplicates(cols) ==
    \E i \in 1..Len(cols), j \in 1..Len(cols) : i < j /\ cols[i] = cols[j]

NoFrame == [err |-> TRUE, cols |-> <<>>, data |-> <<>>]

\* d.reindex(target, axis=1): the frame itself when target equals its labels,
\* ValueError when its labels are not unique, else the columns in target order
reindex(d, target) ==
    IF d.cols = target THEN [err |-> FALSE, cols |-> d.cols, data |-> d.data]
    ELSE IF HasDuplicates(d.cols) THEN NoFrame
    ELSE [err  |-> FALSE,
          cols |-> target,
          data |-> [r \in 1..NRows(d) |->
                       [k \in 1..Len(target) |-> d.data[r][ColIndex(d, target[k])]]]]

clean_template_df(d0, pads) ==
    LET d1 == DropIfPresent(DropIfPresent(d0, "OTHER"), "LOGO")
        st == AmountLoop([d |-> d1, cur |-> <<>>], 1)
        d2 == CurrencyStep(st)
        d3 == DateStep(DateStep(d2, "DATE", "DATE_NORM", pads),
                       "DUE_DATE", "DUE_DATE_NORM", pads)
        d4 == AddressStep(AddressStep(d3, "BUYER", BuyerColumns),
                          "SELLER_ADDRESS", SellerColumns)
    IN  reindex(d4, sorted(d4.cols))

(***************************************************************************)
(* json_to_csv: extract_text_fields, template_folder_to_csv and            *)
(* json_templates_to_csv                                                   *)
(*                                                                         *)
(* A loaded JSON document is [kind, items]: kind is "dict" or "list", and  *)
(* the items of a dict are <<key, value>> pairs whose value is             *)
(* [dict, hasText, text, num]: an annotation dict with or without "text",  *)
(* or the number num.                                                      *)
(***************************************************************************)
NoFile == [exists |-> FALSE, rows |-> <<>>]

\* the file names of a folder's documents, in sorted order
FileNames == <<"doc1.json", "doc2.json", "doc3.json", "doc4.json", "doc5.json">>

\* flat[key] for one value
FlatValue(v) ==
    IF v.dict THEN (IF v.hasText THEN v.text ELSE <<>>) ELSE NatToDigits(v.num)

extract_text_fields(invoice_json) ==
    [k \in 1..Len(invoice_json.items) |->
        <<invoice_json.items[k][1], FlatValue(invoice_json.items[k][2])>>]

\* isinstance(invoice, dict)
IsDict(invoice) == invoice.kind = "dict"

\* the loop body of lines 38-50 that goes on to the next document when the
\* top level is no dict
ReadStepSkipMalformed(invoice, rws, name) ==
    IF ~IsDict(invoice) THEN [pc |-> "docs", rows |-> rws]
    ELSE [pc   |-> "docs",
          rows |-> Append(rws, Append(extract_text_fields(invoice),
                                      <<"_source_file", name>>))]

\* the loop body of lines 38-50 for one document: the control state after it
\* and the rows collected
ReadStep(invoice, rws, name) ==
    IF ~IsDict(invoice) THEN [pc |-> "raisedValueError", rows |-> rws]
    ELSE [pc   |-> "docs",
          rows |-> Append(rws, Append(extract_text_fields(invoice),
                                      <<"_source_file", name>>))]

\* json_templates_to_csv up to its loop: FileNotFoundError without folders
Start ==
    /\ fPc = "start"
    /\ \/ /\ folders = <<>>
          /\ fPc' = "raisedFileNotFound"
          /\ UNCHANGED fi
       \/ /\ folders # <<>>
          /\ fPc' = "folder"
          /\ fi' = 1
    /\ UNCHANGED <<folders, csv, di, rows, notFlat>>

\* the control state after template_folder_to_csv returns for folder fi
AfterFolder == IF fi < Len(folders) THEN "folder" ELSE "done"

\* template_folder_to_csv, lines 31-36: a folder without documents is skipped
EnterFolder ==
    /\ fPc = "folder"
    /\ \/ /\ folders[fi] = <<>>
          /\ fPc' = AfterFolder
          /\ fi' = IF fi < Len(folders) THEN fi + 1 ELSE fi
          /\ UNCHANGED <<di, rows>>
       \/ /\ folders[fi] # <<>>
          /\ fPc' = "docs"
          /\ di' = 0
          /\ rows' = <<>>
          /\ UNCHANGED fi
    /\ UNCHANGED <<folders, csv, notFlat>>

\* template_folder_to_csv, lines 37-50, for the next document
ReadDocument ==
    /\ fPc = "docs"
    /\ di < Len(folders[fi])
    /\ LET step == ReadStep(folders[fi][di + 1], rows, FileNames[di + 1])
       IN  /\ fPc' = step.pc
           /\ rows' = step.rows
           /\ di' = IF step.pc = "docs" THEN di + 1 ELSE di
    /\ UNCHANGED <<folders, csv, fi, notFlat>>

\* template_folder_to_csv, lines 52-59, and the return to the loop
WriteCsv ==
    /\ fPc = "docs"
    /\ di = Len(folders[fi])
    /\ csv' = [csv EXCEPT ![fi] = [exists |-> TRUE, rows |-> rows]]
    /\ fPc' = AfterFolder
    /\ fi' = IF fi < Len(folders) THEN fi + 1 ELSE fi
    /\ UNCHANGED <<folders, di, rows, notFlat>>

(***************************************************************************)
(* The amount parser applied to bounded texts                              *)
(***************************************************************************)
NumLen == 5

SeqsUpTo(S, n) == UNION { [1..k -> S] : k \in 0..n }

NumChars == {"0", "1", ",", "."}

AmountPrefixes ==
    { <<>>,
      <<"-">>,
      <<"D","i","s","c","o","u","n","t"," ">>,
      <<"d","i","s","c","o","u","n","t",":","\n"," ","-">>,
      <<"(","-",")"," ">>,
      <<"(","\t","-"," ",")","$">>,
      <<"T","a","x"," ","1","0","%"," ","e","u","r"," ">>,
      <<"U","S","D"," ">>,
      <<"$">> }

AmountTexts ==
    {NaN} \cup { p \o n : p \in AmountPrefixes, n \in SeqsUpTo(NumChars, NumLen) }

NoRet == [amount |-> NoAmount, currency |-> "None"]

IdleDate == dPc = "idle" /\ dText = NaN /\ dRet = NaN /\ libcPadsYear = TRUE

IdleAddr == bPc = "idle" /\ bText = NaN /\ bRet = EmptyAddress

IdleClean == cPc = "idle" /\ df = [cols |-> <<>>, data |-> <<>>] /\ out = NoFrame

IdleFlat ==
    /\ fPc = "idle" /\ folders = <<>> /\ csv = <<>>
    /\ fi = 0 /\ di = 0 /\ rows = <<>>

IdleAmount ==
    /\ aPc = "idle" /\ aText = NaN /\ aRet = NoRet
    /\ aText2 = NaN /\ aRet2 = NoRet

InitAmount ==
    /\ aPc = "start"
    /\ aText \in AmountTexts
    /\ aRet = NoRet /\ aText2 = NaN /\ aRet2 = NoRet
    /\ IdleDate /\ IdleAddr /\ IdleClean /\ IdleFlat

ParseAmount ==
    /\ aPc = "start"
    /\ aRet' = parse_amount_and_currency(aText)
    /\ aPc' = "parsed"
    /\ UNCHANGED <<aText, aText2, aRet2, notAmount>>

\* the parsed pair written as a plain number followed by the currency code
Restringify(r) ==
    FloatRepr(r.amount)
        \o (IF r.currency = "None" THEN <<>> ELSE <<" ">> \o CodeChars(r.currency))

ReparseAmount ==
    /\ aPc = "parsed"
    /\ aRet.amount.some
    /\ aText2' = Restringify(aRet)
    /\ aRet2' = parse_amount_and_currency(aText2')
    /\ aPc' = "reparsed"
    /\ UNCHANGED <<aText, aRet, notAmount>>

NextAmount == ParseAmount \/ ReparseAmount

SpecAmount == InitAmount /\ [][NextAmount]_vars

\* equality of two floats (0.0 == -0.0)
FloatEq(a, b) ==
    /\ a.some /\ b.some
    /\ \/ IsZero(a) /\ IsZero(b)
       \/ a.neg = b.neg /\ a.int = b.int /\ a.frac = b.frac

FloatPositive(a) == a.some /\ ~a.neg /\ ~IsZero(a)
FloatNegative(a) == a.some /\ a.neg /\ ~IsZero(a)

\* The numeric tokens of a text as the specification describes them: a signed
\* decimal number is one token whether it is comma-grouped or ungrouped.
Max(a, b) == IF a > b THEN a ELSE b
WholeEnd(t, i) == Max(Alt1End(t, i), Alt2End(t, i))
RECURSIVE WholeTokensFrom(_, _)
WholeTokensFrom(t, i) ==
    IF i > Len(t) THEN <<>>
    ELSE IF WholeEnd(t, i) = 0 THEN WholeTokensFrom(t, i + 1)
    ELSE <<Slice(t, i, WholeEnd(t, i) - 1)>> \o WholeTokensFrom(t, WholeEnd(t, i))
WholeTokens(t) == WholeTokensFrom(t, 1)

\* C1: for a non-empty text (without a discount marker, which C7 covers) the
\* amount is the value of the last signed decimal number of the text, taken as
\* a whole token, comma-grouped or ungrouped, and absent when there is none.
C1_LastWholeNumber ==
    (aPc = "parsed" /\ clean_spaces(aText) # <<>>
        /\ ~DiscountMarked(clean_spaces(aText)))
    => LET toks == WholeTokens(clean_spaces(aText))
       IN  IF toks = <<>> THEN ~aRet.amount.some
           ELSE FloatEq(aRet.amount, ToFloat(RemoveCommas(toks[Len(toks)])))

\* C2: a returned pair with an amount, written as a plain number with the
\* currency code and parsed again, gives the same pair.
C2_RoundTrip ==
    aPc = "reparsed"
    => /\ FloatEq(aRet2.amount, aRet.amount)
       /\ aRet2.currency = aRet.currency

\* C7: a text that contains "discount" in any letter case and a positive
\* number yields a strictly negative amount.
C7_DiscountNegative ==
    (aPc = "parsed"
        /\ Contains(Upper(clean_spaces(aText)), <<"D","I","S","C","O","U","N","T">>)
        /\ \E k \in DOMAIN WholeTokens(clean_spaces(aText)) :
              FloatPositive(ToFloat(RemoveCommas(WholeTokens(clean_spaces(aText))[k]))))
    => FloatNegative(aRet.amount)

\* C7, amended: with "discount" and a positive number in the text the amount
\* is present with its sign forced negative, so it is never positive; it is
\* strictly negative exactly when the last token of the scan is not zero, and
\* negative zero when it is.
C7_DiscountNeverPositive ==
    (aPc = "parsed"
        /\ Contains(Upper(clean_spaces(aText)), <<"D","I","S","C","O","U","N","T">>)
        /\ \E k \in DOMAIN WholeTokens(clean_spaces(aText)) :
              FloatPositive(ToFloat(RemoveCommas(WholeTokens(clean_spaces(aText))[k]))))
    => LET nums == FindAll(clean_spaces(aText))
       IN  /\ aRet.amount.some /\ aRet.amount.neg
           /\ FloatNegative(aRet.amount)
                 <=> ~IsZero(ToFloat(RemoveCommas(nums[Len(nums)])))

\* a "discount" text with several numeric tokens whose amount is negative
C7_Witness ==
    /\ aPc = "parsed"
    /\ Contains(Upper(clean_spaces(aText)), <<"D","I","S","C","O","U","N","T">>)
    /\ Len(FindAll(clean_spaces(aText))) >= 2
    /\ FloatPositive(ToFloat(RemoveCommas(FindAll(clean_spaces(aText))[1])))
    /\ FloatNegative(aRet.amount)

(***************************************************************************)
(* The date normaliser applied to bounded texts                            *)
(***************************************************************************)
DateFields ==
    { <<"1">>, <<"0","2">>, <<"1","2">>, <<"1","3">>, <<"2","9">>, <<"3","1">>,
      <<"0","0">>, <<" ","3">>,
      <<"2","0","2","1">>, <<"2","0","2","4">>, <<"0","9","9","9">>,
      <<"F","e","b">>, <<"M","A","Y">>, <<"f","e","b","r","u","a","r","y">> }

DateSeps == {"-", "/"}

DateLabels ==
    { <<>>, <<"D","a","t","e",":"," ">>, <<"D","u","e","\n"," ","d","a","t","e"," ",":","\t">> }

DateSuffixes == { <<>>, <<" ","1",":","0","0">> }

DateTexts ==
    {NaN, <<>>, <<" ","\n">>}
    \cup { l \o a \o <<s1>> \o b \o <<s2>> \o c \o x :
             l \in DateLabels, a \in DateFields, s1 \in DateSeps, b \in DateFields,
             s2 \in DateSeps, c \in DateFields, x \in DateSuffixes }

InitDate ==
    /\ dPc = "start"
    /\ dText \in DateTexts
    /\ dRet = NaN
    /\ libcPadsYear \in BOOLEAN
    /\ IdleAmount /\ IdleAddr /\ IdleClean /\ IdleFlat

NormalizeDate ==
    /\ dPc = "start"
    /\ dRet' = normalize_date(dText, libcPadsYear)
    /\ dPc' = "done"
    /\ UNCHANGED <<dText, libcPadsYear, notDate>>

NextDate == NormalizeDate

SpecDate == InitDate /\ [][NextDate]_vars

\* The date a text denotes under the claim's reading: the first format of the
\* fixed order that accepts it, as [ok, y, m, d].
RECURSIVE FirstAccepted(_, _)
FirstAccepted(t, k) ==
    IF k > Len(formats) THEN NoDate
    ELSE IF strptime(t, formats[k]).ok THEN strptime(t, formats[k])
    ELSE FirstAccepted(t, k + 1)

\* YYYY-MM-DD: four, two and two digits
IsoForm(dt) ==
    ZeroPad(NatToDigits(dt.y), 4) \o <<"-">> \o ZeroPad(NatToDigits(dt.m), 2)
        \o <<"-">> \o ZeroPad(NatToDigits(dt.d), 2)

\* a canonical ISO date: YYYY-MM-DD naming a day of the calendar
CanonicalIso(t) ==
    /\ Len(t) = 10 /\ t[5] = "-" /\ t[8] = "-"
    /\ AllDigits(Slice(t, 1, 4)) /\ AllDigits(Slice(t, 6, 7)) /\ AllDigits(Slice(t, 9, 10))
    /\ DigitsToNat(Slice(t, 1, 4)) >= 1
    /\ DigitsToNat(Slice(t, 6, 7)) \in 1..12
    /\ DigitsToNat(Slice(t, 9, 10)) \in
          1..DaysInMonth(DigitsToNat(Slice(t, 1, 4)), DigitsToNat(Slice(t, 6, 7)))

\* C8: normalize_date returns the YYYY-MM-DD form of the parse under the first
\* format that accepts the text (after the label before the first colon is
\* dropped), None when no format accepts it, and a canonical ISO date unchanged.
C8_FirstFormatIso ==
    (dPc = "done" /\ dText # NaN /\ clean_spaces(dText) # <<>>)
    => LET t  == DateValue(clean_spaces(dText))
           dt == FirstAccepted(t, 1)
       IN  /\ dRet = (IF dt.ok THEN IsoForm(dt) ELSE NaN)
           /\ CanonicalIso(t) => dRet = t

\* The same statement for the years 1000 to 9999, which %Y prints with four
\* digits on every platform.
C8_FourDigitYears ==
    (dPc = "done" /\ dText # NaN /\ clean_spaces(dText) # <<>>)
    => LET t  == DateValue(clean_spaces(dText))
           dt == FirstAccepted(t, 1)
       IN  (~dt.ok \/ dt.y >= 1000)
           => /\ dRet = (IF dt.ok THEN IsoForm(dt) ELSE NaN)
              /\ CanonicalIso(t) => dRet = t

(***************************************************************************)
(* The address splitter applied to bounded blocks                          *)
(***************************************************************************)
MaxLines == 3

RawLines ==
    { <<"A","c","m","e">>,
      <<" ","M","a","i","n"," ","S","t","\t">>,
      <<"T","e","l",":"," ","5">>,
      <<"T","E","L","F","O","R","D">>,
      <<"e","m","a","i","l"," ","a","@","b">>,
      <<"S","i","t","e",":","x",":","y">>,
      <<"W","w","w",".","a">>,
      <<"s","e","e"," ","h","t","t","p",":","/","/","a">>,
      <<>>,
      <<" "," ">> }

AddressTexts ==
    {NaN} \cup { JoinLines(ls, <<"\n">>) : ls \in SeqsUpTo(RawLines, MaxLines) }

InitAddr ==
    /\ bPc = "start"
    /\ bText \in AddressTexts
    /\ bRet = EmptyAddress
    /\ IdleAmount /\ IdleDate /\ IdleClean /\ IdleFlat

SplitAddress ==
    /\ bPc = "start"
    /\ bRet' = split_address_block(bText)
    /\ bPc' = "done"
    /\ UNCHANGED <<bText, notAddr>>

NextAddr == SplitAddress

SpecAddr == InitAddr /\ [][NextAddr]_vars

\* a contact line as the claim classifies it: tel, email or site
IsContactLine(line) ==
    LET low == Lower(line)
    IN  \/ StartsWith(low, T_tel)
        \/ StartsWith(low, T_email)
        \/ StartsWith(low, T_site) \/ Contains(low, T_http) \/ StartsWith(low, T_www)

RECURSIVE NonContactLines(_)
NonContactLines(ls) ==
    IF ls = <<>> THEN <<>>
    ELSE IF IsContactLine(Head(ls)) THEN NonContactLines(Tail(ls))
    ELSE <<Head(ls)>> \o NonContactLines(Tail(ls))

AddressFields(r) ==
    <<r.name, r.addr_line1, r.addr_line2, r.city_state_postal_country>>

\* C3: the lines that are not contact lines fill name, addr_line1, addr_line2
\* and city_state_postal_country in their order, and no contact line (so no
\* line assigned to site) appears in any of these four fields.
C3_ContactLinesExcluded ==
    (bPc = "done" /\ bText # NaN)
    => LET lines == SplitLines(bText)
           rest  == NonContactLines(lines)
       IN  /\ AddressFields(bRet) = [k \in 1..4 |-> LineOrNone(rest, k)]
           /\ \A i \in 1..Len(lines) : \A k \in 1..4 :
                 IsContactLine(lines[i]) => AddressFields(bRet)[k] # lines[i]

\* What the code does hold: the four fields are the lines left by the filter
\* that only knows the prefixes tel, email and site.
C3_PrefixFilterOnly ==
    (bPc = "done" /\ bText # NaN)
    => LET lines == SplitLines(bText)
       IN  \A i \in 1..Len(lines) : \A k \in 1..4 :
              (StartsWith(Lower(lines[i]), T_tel)
                 \/ StartsWith(Lower(lines[i]), T_email)
                 \/ StartsWith(Lower(lines[i]), T_site))
              => AddressFields(bRet)[k] # lines[i]

(***************************************************************************)
(* The cleaning pipeline applied to bounded frames                         *)
(***************************************************************************)
MaxCols == 3

ColumnPool ==
    { "OTHER", "LOGO", "TOTAL", "SUB_TOTAL", "TAX", "DISCOUNT", "DATE", "DUE_DATE",
      "BUYER", "SELLER_ADDRESS", "NOTE",
      "CURRENCY", "TOTAL_AMOUNT", "DATE_NORM", "BUYER_name", "SELLER_raw" }

\* the cells a column of the first row may hold
CellChoices(c) ==
    CASE c = "TOTAL" -> { <<"1">>, <<"$","1">> }
      [] c = "SUB_TOTAL" -> { NaN, <<"e","u","r"," ","2",",","0","0","0">> }
      [] c = "TAX" -> { <<"3","%">>, <<"3"," ","G","B","P">> }
      [] c = "DISCOUNT" -> { NaN, <<"(","-",")"," ","4"," ","I","N","R">> }
      [] c = "DATE" -> { <<"D","a","t","e",":"," ","1","/","2","/","2","0","2","1">> }
      [] c = "DUE_DATE" -> { <<"3","1","-","F","e","b","-","2","0","2","1">> }
      [] c = "BUYER" -> { <<"A","c","m","e","\n","w","w","w",".","a","\n","T","e","l",":","5">> }
      [] c = "SELLER_ADDRESS" -> { NaN }
      [] c = "NOTE" -> { <<"n">> }
      [] OTHER -> { <<"o","l","d">> }

\* the cell a column of the second row holds
SecondRowCell(c) ==
    CASE c = "TOTAL" -> NaN
      [] c = "SUB_TOTAL" -> <<"5">>
      [] c = "TAX" -> <<"C","A","D","6">>
      [] c = "DISCOUNT" -> <<"7"," ","a","e","d">>
      [] c = "DATE" -> <<"2","0","2","1","-","0","5","-","1","2">>
      [] c = "DUE_DATE" -> NaN
      [] c = "BUYER" -> NaN
      [] c = "SELLER_ADDRESS" -> <<"S","\n","s","i","t","e"," ","x">>
      [] c = "NOTE" -> NaN
      [] OTHER -> <<"k","e","p","t">>

RECURSIVE RowsFor(_)
RowsFor(cols) ==
    IF cols = <<>> THEN { <<>> }
    ELSE { <<c>> \o rest : c \in CellChoices(Head(cols)), rest \in RowsFor(Tail(cols)) }

Reverse(s) == [i \in 1..Len(s) |-> s[Len(s) + 1 - i]]

InitClean ==
    /\ cPc = "start"
    /\ \E S \in SUBSET ColumnPool :
          /\ Cardinality(S) <= MaxCols
          /\ \E cols \in { sorted(SetToSeq(S)), Reverse(sorted(SetToSeq(S))) } :
             \E first \in RowsFor(cols) :
                 df = [cols |-> cols,
                       data |-> <<first, [k \in 1..Len(cols) |-> SecondRowCell(cols[k])]>>]
    /\ out = NoFrame
    /\ IdleAmount /\ IdleDate /\ IdleAddr /\ IdleFlat

CleanTemplate ==
    /\ cPc = "start"
    /\ out' = clean_template_df(df, libcPadsYear)
    /\ cPc' = "done"
    /\ UNCHANGED <<df, notClean>>

NextClean == CleanTemplate

SpecClean == InitClean /\ [][NextClean]_vars

LexRank(c) == CHOOSE k \in 1..Len(LexOrder) : LexOrder[k] = c

AllNone(col) == \A r \in 1..Len(col) : col[r] = NaN

\* the call fails: a present address column meets an input column that has the
\* name of one of its derived columns
FailsOnCollision ==
    \/ HasCol(df, "BUYER") /\ \E k \in 1..Len(BuyerColumns) : HasCol(df, BuyerColumns[k])
    \/ HasCol(df, "SELLER_ADDRESS")
          /\ \E k \in 1..Len(SellerColumns) : HasCol(df, SellerColumns[k])

\* C4: clean_template_df never fails and returns its columns in strictly
\* ascending lexicographic order (sorted, no duplicates), whatever the input
\* columns are.
C4_SortedAlways ==
    cPc = "done"
    => /\ ~out.err
       /\ \A i \in 1..Len(out.cols), j \in 1..Len(out.cols) :
             i < j => LexRank(out.cols[i]) < LexRank(out.cols[j])

MonetarySources == {"TOTAL", "SUB_TOTAL", "TAX", "DISCOUNT"}
Sources == MonetarySources \cup {"DATE", "DUE_DATE", "BUYER", "SELLER_ADDRESS"}

\* the derived columns of a source column
Derived(src) ==
    CASE src = "TOTAL" -> {"TOTAL_AMOUNT"}
      [] src = "SUB_TOTAL" -> {"SUB_TOTAL_AMOUNT"}
      [] src = "TAX" -> {"TAX_AMOUNT"}
      [] src = "DISCOUNT" -> {"DISCOUNT_AMOUNT"}
      [] src = "DATE" -> {"DATE_NORM"}
      [] src = "DUE_DATE" -> {"DUE_DATE_NORM"}
      [] src = "BUYER" -> Range(BuyerColumns)
      [] src = "SELLER_ADDRESS" -> Range(SellerColumns)

\* C5: when a source column is absent the call does not fail, its derived
\* columns are in the output and None in every row, and the output has the
\* rows of the input.
C5_AbsentSourceFilled ==
    cPc = "done"
    => \A src \in Sources :
          ~HasCol(df, src)
          => /\ ~out.err
             /\ NRows(out) = NRows(df)
             /\ \A tgt \in Derived(src) : HasCol(out, tgt) /\ AllNone(Column(out, tgt))

\* C5, amended: an absent monetary column leaves its <NAME>_AMOUNT column in
\* the output, None in every row; an absent DATE, DUE_DATE, BUYER or
\* SELLER_ADDRESS adds no column, so its derived names are in the output only
\* as input columns passed through; the call fails exactly on a collision of
\* a present address column, never for an absent column; the rows are kept.
C5_AbsentSourceSkipped ==
    cPc = "done"
    => /\ out.err <=> FailsOnCollision
       /\ ~out.err
          => /\ NRows(out) = NRows(df)
             /\ \A src \in Sources : \A tgt \in Derived(src) :
                   ~HasCol(df, src)
                   => IF src \in MonetarySources
                      THEN HasCol(out, tgt) /\ AllNone(Column(out, tgt))
                      ELSE /\ HasCol(out, tgt) <=> HasCol(df, tgt)
                           /\ HasCol(df, tgt) => Column(out, tgt) = Column(df, tgt)

\* a frame without TOTAL and DATE: TOTAL_AMOUNT is there and None, DATE_NORM is not
C5_Witness ==
    /\ cPc = "done" /\ ~out.err
    /\ HasCol(df, "TAX") /\ ~HasCol(df, "TOTAL") /\ ~HasCol(df, "DATE")
    /\ HasCol(out, "TOTAL_AMOUNT") /\ AllNone(Column(out, "TOTAL_AMOUNT"))
    /\ ~HasCol(out, "DATE_NORM")
    /\ NRows(out) = 2

\* the declaration order of the monetary columns
FixedOrder == <<"TOTAL", "SUB_TOTAL", "TAX", "DISCOUNT">>

\* the currency parse_amount_and_currency finds in column c of row r
Guess(r, c) ==
    IF HasCol(df, c) THEN parse_amount_and_currency(Column(df, c)[r]).currency
    ELSE "None"

\* C6: in every row CURRENCY is the first currency that is not None over the
\* monetary columns taken in the order TOTAL, SUB_TOTAL, TAX, DISCOUNT,
\* whatever their order in the input, and None when there is none.
C6_CurrencyFirstInFixedOrder ==
    (cPc = "done" /\ ~out.err)
    => /\ Count(out.cols, "CURRENCY") = 1
       /\ \A r \in 1..NRows(df) :
             Column(out, "CURRENCY")[r] =
                IF \E k \in 1..4 : Guess(r, FixedOrder[k]) # "None"
                THEN CurrencyCell(Guess(r, FixedOrder[
                         CHOOSE k \in 1..4 :
                             /\ Guess(r, FixedOrder[k]) # "None"
                             /\ \A m \in 1..(k - 1) : Guess(r, FixedOrder[m]) = "None"]))
                ELSE NaN

\* DISCOUNT stands before SUB_TOTAL in the input, TOTAL names no currency,
\* and the row's CURRENCY is the one of SUB_TOTAL
C6_Witness ==
    /\ cPc = "done" /\ ~out.err
    /\ HasCol(df, "TOTAL") /\ HasCol(df, "SUB_TOTAL") /\ HasCol(df, "DISCOUNT")
    /\ ColIndex(df, "DISCOUNT") < ColIndex(df, "SUB_TOTAL")
    /\ Guess(1, "TOTAL") = "None"
    /\ Guess(1, "SUB_TOTAL") = "EUR"
    /\ Guess(1, "DISCOUNT") = "INR"
    /\ Column(out, "CURRENCY")[1] = <<"E","U","R">>

\* C9: every input column other than OTHER and LOGO is in the output once,
\* with the values of the input, whatever its name.
C9_AllPassThrough ==
    cPc = "done"
    => /\ ~out.err
       /\ \A k \in 1..Len(df.cols) :
             df.cols[k] \notin {"OTHER", "LOGO"}
             => /\ Count(out.cols, df.cols[k]) = 1
                /\ Column(out, df.cols[k]) = Column(df, df.cols[k])

\* the columns the pipeline writes for this input
Written ==
    {"TOTAL_AMOUNT", "SUB_TOTAL_AMOUNT", "TAX_AMOUNT", "DISCOUNT_AMOUNT", "CURRENCY"}
        \cup (IF HasCol(df, "DATE") THEN {"DATE_NORM"} ELSE {})
        \cup (IF HasCol(df, "DUE_DATE") THEN {"DUE_DATE_NORM"} ELSE {})

\* C9, amended: in every output the call returns, every input column other
\* than OTHER and LOGO is there once, with the values of the input unless its
\* name is one the pipeline writes; and the call returns no output on a
\* collision of a present address column.
C9_PassThroughUnlessWritten ==
    cPc = "done"
    => /\ FailsOnCollision => out.err
       /\ ~out.err
          => \A k \in 1..Len(df.cols) :
                df.cols[k] \notin {"OTHER", "LOGO"}
                => /\ Count(out.cols, df.cols[k]) = 1
                   /\ df.cols[k] \notin Written
                      => Column(out, df.cols[k]) = Column(df, df.cols[k])

\* NOTE and TOTAL pass through, the input's CURRENCY column is overwritten
C9_Witness ==
    /\ cPc = "done" /\ ~out.err
    /\ HasCol(df, "NOTE") /\ HasCol(df, "TOTAL") /\ HasCol(df, "CURRENCY")
    /\ Column(out, "NOTE") = Column(df, "NOTE")
    /\ Column(out, "TOTAL") = Column(df, "TOTAL")
    /\ Column(out, "CURRENCY") # Column(df, "CURRENCY")

(***************************************************************************)
(* The flatten stage run on bounded folder trees                           *)
(***************************************************************************)
MaxFolders == 3
MaxDocs == 2

\* {"A": {"text": "foo", "bbox": ...}, "B": 5, "C": {"bbox": ...}}
DictDocument ==
    [kind  |-> "dict",
     items |-> << <<"A", [dict |-> TRUE, hasText |-> TRUE, text |-> <<"f","o","o">>, num |-> 0]>>,
                  <<"B", [dict |-> FALSE, hasText |-> FALSE, text |-> <<>>, num |-> 5]>>,
                  <<"C", [dict |-> TRUE, hasText |-> FALSE, text |-> <<>>, num |-> 0]>> >>]

\* a document whose top level is a list
ListDocument == [kind |-> "list", items |-> <<>>]

Documents == {DictDocument, ListDocument}

InitFlat ==
    /\ fPc = "start"
    /\ folders \in SeqsUpTo(SeqsUpTo(Documents, MaxDocs), MaxFolders)
    /\ csv = [j \in 1..Len(folders) |-> NoFile]
    /\ fi = 0 /\ di = 0 /\ rows = <<>>
    /\ IdleAmount /\ IdleDate /\ IdleAddr /\ IdleClean

NextFlat == Start \/ EnterFolder \/ ReadDocument \/ WriteCsv

SpecFlat == InitFlat /\ [][NextFlat]_vars

AllDicts(docs) == \A k \in 1..Len(docs) : IsDict(docs[k])

=============================================================================
